---------------------------- MODULE Spec2Model ----------------------------
(***************************************************************************)
(* A model of pydune/math.py: degree trigonometry, cartesian/polar         *)
(* conversion, circular averaging and binned angular statistics.           *)
(*                                                                         *)
(* Real numbers are fixed-point integers: a trigonometric value v stands   *)
(* for v / Scale.  Angles are whole degrees.  NumPy's primitives are       *)
(* modelled by what they compute on that grid (table look-up for sin/cos,  *)
(* nearest-grid-point search for arctan2, rounding division).              *)
(***************************************************************************)
EXTENDS Integers, Sequences, FiniteSets, TLC

VARIABLES pc,    \* position of the single caller: "call", "mid", "done"
          args,  \* the arguments of the call under way
          ret,   \* the value returned (None before the return)
          heap,  \* SpecThreads: array id -> array contents (or Free)
          thr,   \* SpecThreads: per-thread frame (pc, function, bin_edges, result)
          calls  \* SpecThreads: the number of calls made so far

vars == <<pc, args, ret, heap, thr, calls>>

None == [none |-> TRUE]

(***************************************************************************)
(* Bounds of the model.                                                    *)
(***************************************************************************)
MantBits == 8         \* significand width of the modelled binary float
MaxCoord == 60        \* cartesian_to_polar: x, y in -MaxCoord..MaxCoord
MaxTanArg == 400      \* tand: x in -MaxTanArg..MaxTanArg
NearMargin == 5       \* "near an odd multiple of 90": within NearMargin degrees
SqrtMax == 46340      \* largest integer whose square fits the integer width

(***************************************************************************)
(* Trigonometry in degrees.  SinTable[k + 1] = sin(k degrees) * Scale;     *)
(* Scale, the fixed-point unit, is sin(90 degrees).                        *)
(***************************************************************************)
SinTable == <<
      0, 175, 349, 523, 698, 872, 1045, 1219, 1392, 1564,
      1736, 1908, 2079, 2250, 2419, 2588, 2756, 2924, 3090, 3256,
      3420, 3584, 3746, 3907, 4067, 4226, 4384, 4540, 4695, 4848,
      5000, 5150, 5299, 5446, 5592, 5736, 5878, 6018, 6157, 6293,
      6428, 6561, 6691, 6820, 6947, 7071, 7193, 7314, 7431, 7547,
      7660, 7771, 7880, 7986, 8090, 8192, 8290, 8387, 8480, 8572,
      8660, 8746, 8829, 8910, 8988, 9063, 9135, 9205, 9272, 9336,
      9397, 9455, 9511, 9563, 9613, 9659, 9703, 9744, 9781, 9816,
      9848, 9877, 9903, 9925, 9945, 9962, 9976, 9986, 9994, 9998,
      10000 >>

Scale == SinTable[91]

(***************************************************************************)
(* Integer helpers.                                                        *)
(***************************************************************************)
Abs(v) == IF v < 0 THEN -v ELSE v

\* n / d rounded to the nearest integer (d > 0), halves away from zero
RoundDiv(n, d) == IF n >= 0 THEN (2 * n + d) \div (2 * d)
                            ELSE -((2 * (-n) + d) \div (2 * d))

RECURSIVE SqrtSearch(_, _, _)
SqrtSearch(q, lo, hi) ==
    IF lo >= hi THEN lo
    ELSE LET mid == (lo + hi + 1) \div 2
         IN  IF mid * mid <= q THEN SqrtSearch(q, mid, hi)
                               ELSE SqrtSearch(q, lo, mid - 1)

\* np.sqrt on the grid: the grid point nearest to the square root of q
sqrt(q) == LET f == SqrtSearch(q, 0, SqrtMax)
           IN  IF q - f * f > f THEN f + 1 ELSE f

RECURSIVE Pow2(_)
Pow2(k) == IF k <= 0 THEN 1 ELSE 2 * Pow2(k - 1)

(***************************************************************************)
(* Binary floating point with a MantBits-bit significand (float64 has 53), *)
(* on whole numbers: every v with |v| < 2^MantBits is representable, above *)
(* that only the multiples of Ulp(v), the spacing at magnitude |v|.        *)
(* RoundFloat rounds to the nearest representable, ties to even.  In       *)
(* float64 the spacing just below 360 is 2^-44 and the same rounding       *)
(* happens to 360 + a for a negative a of magnitude below 2^-45.           *)
(***************************************************************************)
RECURSIVE UlpFrom(_, _)
UlpFrom(m, u) == IF m < Pow2(MantBits) * u THEN u ELSE UlpFrom(m, 2 * u)

Ulp(v) == UlpFrom(Abs(v), 1)

RoundFloat(v) ==
    LET u  == Ulp(v)
        lo == (v \div u) * u          \* \div floors: lo <= v < lo + u
        up == lo + u
    IN  IF v = lo THEN v
        ELSE IF 2 * (v - lo) < u THEN lo
        ELSE IF 2 * (v - lo) > u THEN up
        ELSE IF (lo \div u) % 2 = 0 THEN lo ELSE up

\* np.sin(np.radians(x))
sind(x) == LET m == x % 360
           IN  IF m <= 90 THEN SinTable[m + 1]
               ELSE IF m <= 180 THEN SinTable[180 - m + 1]
               ELSE IF m <= 270 THEN -SinTable[m - 180 + 1]
               ELSE -SinTable[360 - m + 1]

\* np.cos(np.radians(x))
cosd(x) == sind(x + 90)

\* np.tan(np.radians(x)), for x off the odd multiples of 90
tand(x) == LET c == cosd(x)
           IN  IF c > 0 THEN RoundDiv(sind(x) * Scale, c)
                        ELSE RoundDiv(-sind(x) * Scale, -c)

\* |(x2, x1)| * sin(a - theta), theta the direction of the point (x2, x1)
Cross(x1, x2, a) == x2 * sind(a) - x1 * cosd(a)

\* the largest a in lo..hi with Cross(x1, x2, a) <= 0, i.e. a <= theta
RECURSIVE AngleSearch(_, _, _, _)
AngleSearch(x1, x2, lo, hi) ==
    IF lo >= hi THEN lo
    ELSE LET mid == (lo + hi + 1) \div 2
         IN  IF Cross(x1, x2, mid) <= 0 THEN AngleSearch(x1, x2, mid, hi)
                                        ELSE AngleSearch(x1, x2, lo, mid - 1)

\* arctan2 in degrees for x1 >= 0: the whole degree nearest to theta, in 0..180
UpperAngle(x1, x2) ==
    IF x1 = 0 THEN (IF x2 < 0 THEN 180 ELSE 0)
    ELSE LET a == AngleSearch(x1, x2, 0, 180)
         IN  IF a < 180 /\ Abs(Cross(x1, x2, a + 1)) < Abs(Cross(x1, x2, a))
             THEN a + 1 ELSE a

\* np.degrees(np.arctan2(x1, x2)): x1 is the y-coordinate, x2 the x-coordinate
arctan2d(x1, x2) == IF x1 >= 0 THEN UpperAngle(x1, x2)
                               ELSE -UpperAngle(-x1, x2)

\* the inverse tangent folded into 0..179
arctandFolded(x) == arctan2d(x, Scale) % 180

\* np.degrees(np.arctan(x)): the angle of the point (1, x), in -90..90
arctand(x) == arctan2d(x, Scale)

(***************************************************************************)
(* cartesian_to_polar.                                                     *)
(***************************************************************************)
FullTurn == 360

\* C fmod: the remainder of a / b with the sign of a (b > 0)
fmod(a, b) == IF a >= 0 THEN a % b ELSE -((-a) % b)

\* the remainder left with the sign of the dividend
ModTruncated(a, b) == fmod(a, b)

\* the float operator %, as NumPy computes it: fmod, then the divisor is
\* added to a remainder of the other sign, and that sum is rounded
Mod(a, b) == LET m == fmod(a, b)
             IN  IF m # 0 /\ m < 0 THEN RoundFloat(m + b) ELSE m

cartesian_to_polar(x, y) ==
    [r |-> sqrt(x * x + y * y), theta |-> Mod(arctan2d(y, x), FullTurn)]

Coords == (-MaxCoord)..MaxCoord

InitPolar ==
    /\ pc = "call"
    /\ args \in [fn : {"cartesian_to_polar"}, x : Coords, y : Coords]
    /\ ret = None
    /\ heap = <<>>
    /\ thr = <<>>
    /\ calls = 0

CallCartesianToPolar ==
    /\ pc = "call"
    /\ args.fn = "cartesian_to_polar"
    /\ ret' = cartesian_to_polar(args.x, args.y)
    /\ pc' = "done"
    /\ UNCHANGED <<args, heap, thr, calls>>

SpecPolar == InitPolar /\ [][CallCartesianToPolar]_vars

PolarDone == pc = "done" /\ args.fn = "cartesian_to_polar"

\* r is the grid point nearest to the square root of q
NearestSqrt(r, q) ==
    /\ r >= 0
    /\ (r = 0 \/ (2 * r - 1) * (2 * r - 1) <= 4 * q)
    /\ 4 * q <= (2 * r + 1) * (2 * r + 1)

\* theta is arctan2d(y, x) mod 360 up to the rounding of the float format
ThetaIsMod360(theta, x, y) ==
    LET exact == arctan2d(y, x) % FullTurn
    IN  /\ 2 * Abs(theta - exact) <= Ulp(exact)
        /\ (Ulp(exact) = 1 => theta = exact)

\* C5 (as stated): theta is arctan2d(y, x) mod 360 and lies in the half-open
\* range [0, 360), never 360; r is the square root of x^2 + y^2.
C5_ThetaHalfOpen ==
    PolarDone =>
        /\ 0 <= ret.theta /\ ret.theta < FullTurn
        /\ ThetaIsMod360(ret.theta, args.x, args.y)
        /\ NearestSqrt(ret.r, args.x * args.x + args.y * args.y)

\* C5 (amended): theta is arctan2d(y, x) mod 360 rounded to the float format
\* and lies in the closed range [0, 360] (360 is returned for a negative
\* arctan2d too small for 360 + arctan2d to be representable below 360);
\* r is the square root of x^2 + y^2.
C5_ThetaClosed ==
    PolarDone =>
        /\ 0 <= ret.theta /\ ret.theta <= FullTurn
        /\ ThetaIsMod360(ret.theta, args.x, args.y)
        /\ NearestSqrt(ret.r, args.x * args.x + args.y * args.y)

\* a call whose arctan2d is a small negative angle: theta comes out as 360
C5_Witness ==
    /\ PolarDone
    /\ args.y < 0 /\ args.x > 0
    /\ arctan2d(args.y, args.x) = -1
    /\ ret.theta = FullTurn

(***************************************************************************)
(* tand / arctand round trip.                                              *)
(***************************************************************************)
NearOdd90(x) == Abs((x % 180) - 90) <= NearMargin

InitTan ==
    /\ pc = "call"
    /\ args \in [fn : {"tand"}, x : {x \in (-MaxTanArg)..MaxTanArg : ~NearOdd90(x)}]
    /\ ret = None
    /\ heap = <<>>
    /\ thr = <<>>
    /\ calls = 0

\* y = tand(x)
CallTand ==
    /\ pc = "call"
    /\ args.fn = "tand"
    /\ ret' = tand(args.x)
    /\ pc' = "mid"
    /\ UNCHANGED <<args, heap, thr, calls>>

\* arctand(y)
CallArctand ==
    /\ pc = "mid"
    /\ args.fn = "tand"
    /\ ret' = arctand(ret)
    /\ pc' = "done"
    /\ UNCHANGED <<args, heap, thr, calls>>

SpecTan == InitTan /\ [][CallTand \/ CallArctand]_vars

TanDone == pc = "done" /\ args.fn = "tand"

\* C6 (as stated): arctand(tand(x)) equals x mod 180.
C6_RoundTripMod180 == TanDone => ret = args.x % 180

\* C6 (amended): arctand(tand(x)) is the representative of x modulo 180 in
\* the open range (-90, 90), i.e. ((x + 90) mod 180) - 90; it equals x mod 180
\* exactly when x mod 180 < 90.
C6_RoundTripPrincipal ==
    TanDone =>
        /\ ret = ((args.x + 90) % 180) - 90
        /\ -90 < ret /\ ret < 90
        /\ (ret = args.x % 180 <=> args.x % 180 < 90)

\* a round trip of an angle in the second quadrant
C6_Witness == TanDone /\ args.x = 100 /\ ret = -80

(***************************************************************************)
(* Binned statistics.  Angles, weights and bin edges are whole numbers; a  *)
(* quotient is the pair [n, d] standing for n / d, and d = 0 stands for    *)
(* the not-a-number that 0 / 0 gives.                                      *)
(***************************************************************************)
MaxEdge == 3          \* bin edges are drawn from 0..MaxEdge
MaxSamples == 2       \* the input arrays hold at most MaxSamples samples
MaxWeight == 2        \* weights are drawn from 0..MaxWeight

Quot(n, d) == [n |-> n, d |-> d]

\* a / b for quotients a and b
QuotDiv(a, b) == IF a.d = 0 \/ b.d = 0 \/ (a.n = 0 /\ b.n = 0) THEN Quot(0, 0)
                 ELSE Quot(a.n * b.d, a.d * b.n)

\* q[lo] + ... + q[hi], by halves
RECURSIVE SumRange(_, _, _)
SumRange(q, lo, hi) ==
    IF lo > hi THEN 0
    ELSE IF lo = hi THEN q[lo]
    ELSE LET mid == (lo + hi) \div 2
         IN  SumRange(q, lo, mid) + SumRange(q, mid + 1, hi)

SumSeq(q) == SumRange(q, 1, Len(q))

Ones(q) == [k \in 1..Len(q) |-> 1]

\* the digitize step of the histogram: the number of edges at or below a,
\* the last edge moved up by a hair so that the last bin includes it
digitize(a, bins) ==
    Cardinality({i \in 1..Len(bins) :
                    IF i = Len(bins) THEN bins[i] < a ELSE bins[i] <= a})

\* np.bincount: the sum of the weights of the samples with index j
bincount(idx, weights, j) ==
    SumSeq([k \in 1..Len(idx) |-> IF idx[k] = j THEN weights[k] ELSE 0])

\* xhistogram.core.histogram(angles, bins=bins, weights=weights): samples
\* outside the bins (index 0 and index Len(bins)) are thrown away
histogram(angles, bins, weights) ==
    LET idx == [k \in 1..Len(angles) |-> digitize(angles[k], bins)]
    IN  [i \in 1..(Len(bins) - 1) |-> bincount(idx, weights, i)]

\* a histogram normalised by the sum of its bins only
normalizeNoWidth(h, bins) ==
    LET total == SumSeq(h)
    IN  [i \in 1..Len(h) |-> QuotDiv(Quot(h[i], 1), Quot(total, 1))]

\* density=1: bin_counts / bin_areas / bin_counts.sum()
normalize(h, bins) ==
    LET total == SumSeq(h)
    IN  [i \in 1..Len(h) |->
            QuotDiv(QuotDiv(Quot(h[i], 1), Quot(bins[i + 1] - bins[i], 1)),
                    Quot(total, 1))]

\* each centre taken from the bin's own pair of edges
centersOwnPair(bin_edges) ==
    [i \in 1..(Len(bin_edges) - 1) |-> Quot(bin_edges[i] + bin_edges[i + 1], 2)]

\* bin_edges[1:] - (bin_edges[1] - bin_edges[0])/2
centersPDF(bin_edges) ==
    [i \in 1..(Len(bin_edges) - 1) |->
        Quot(2 * bin_edges[i + 1] - (bin_edges[2] - bin_edges[1]), 2)]

make_angular_PDF(angles, weight, bin_edges) ==
    [hist        |-> normalize(histogram(angles, bin_edges, weight), bin_edges),
     bin_centers |-> centersPDF(bin_edges)]

\* np.array([np.mean(bin_edges[i:i+2]) for i in range(bin_edges.size - 1)])
centersAverage(bin_edges) ==
    [i \in 1..(Len(bin_edges) - 1) |-> Quot(bin_edges[i] + bin_edges[i + 1], 2)]

\* the counts taken with the weights passed along
countsWeighted(angles, weight, bin_edges) == histogram(angles, bin_edges, weight)

\* counts, _ = histogram(angles, bins=bin_edges, axis=axis)
countsOf(angles, weight, bin_edges) == histogram(angles, bin_edges, Ones(angles))

\* the masked store left out
maskedFillSkipped(a, counts) == a

\* a[counts == 0] = 1
maskedFill(a, counts) == [i \in 1..Len(a) |-> IF counts[i] = 0 THEN 1 ELSE a[i]]

make_angular_average(angles, weight, bin_edges) ==
    LET hist    == histogram(angles, bin_edges, weight)
        counts  == countsOf(angles, weight, bin_edges)
        hist1   == maskedFill(hist, counts)
        counts1 == maskedFill(counts, counts)
    IN  [hist        |-> [i \in 1..Len(hist1) |-> Quot(hist1[i], counts1[i])],
         bin_centers |-> centersAverage(bin_edges)]

\* the increasing sequence of the members of S
RECURSIVE SortedSeq(_)
SortedSeq(S) == IF S = {} THEN <<>>
                ELSE LET m == CHOOSE v \in S : \A w \in S : v <= w
                     IN  <<m>> \o SortedSeq(S \ {m})

EdgeSeqs == {SortedSeq(S) : S \in {T \in SUBSET (0..MaxEdge) : Cardinality(T) >= 2}}

SampleAngles == (-1)..(MaxEdge + 1)

SampleSets == UNION {[1..n -> SampleAngles \X (0..MaxWeight)] : n \in 0..MaxSamples}

InitBins ==
    /\ pc = "call"
    /\ \E e \in EdgeSeqs, sm \in SampleSets,
          f \in {"make_angular_PDF", "make_angular_average"} :
            args = [fn        |-> f,
                    angles    |-> [k \in 1..Len(sm) |-> sm[k][1]],
                    weight    |-> [k \in 1..Len(sm) |-> sm[k][2]],
                    bin_edges |-> e]
    /\ ret = None
    /\ heap = <<>>
    /\ thr = <<>>
    /\ calls = 0

CallMakeAngularPDF ==
    /\ pc = "call"
    /\ args.fn = "make_angular_PDF"
    /\ ret' = make_angular_PDF(args.angles, args.weight, args.bin_edges)
    /\ pc' = "done"
    /\ UNCHANGED <<args, heap, thr, calls>>

CallMakeAngularAverage ==
    /\ pc = "call"
    /\ args.fn = "make_angular_average"
    /\ ret' = make_angular_average(args.angles, args.weight, args.bin_edges)
    /\ pc' = "done"
    /\ UNCHANGED <<args, heap, thr, calls>>

SpecBins == InitBins /\ [][CallMakeAngularPDF \/ CallMakeAngularAverage]_vars

PDFDone == pc = "done" /\ args.fn = "make_angular_PDF"
AverageDone == pc = "done" /\ args.fn = "make_angular_average"

NumBins == Len(args.bin_edges) - 1

\* the samples falling in bin i: edge i <= angle < edge i+1, the last bin
\* taking its upper edge too
InBin(i) ==
    {k \in 1..Len(args.angles) :
        /\ args.bin_edges[i] <= args.angles[k]
        /\ \/ args.angles[k] < args.bin_edges[i + 1]
           \/ i = NumBins /\ args.angles[k] = args.bin_edges[i + 1]}

RECURSIVE WeightOver(_)
WeightOver(K) == IF K = {} THEN 0
                 ELSE LET k == CHOOSE j \in K : TRUE
                      IN  args.weight[k] + WeightOver(K \ {k})

InRange == UNION {InBin(i) : i \in 1..NumBins}

\* the sum over bins 1..i of density[i] * (bin_edges[i+1] - bin_edges[i])
RECURSIVE Integral(_)
Integral(i) ==
    IF i = 0 THEN Quot(0, 1)
    ELSE LET rest == Integral(i - 1)
             den  == ret.hist[i]
             w    == args.bin_edges[i + 1] - args.bin_edges[i]
         IN  IF rest.d = 0 \/ den.d = 0 THEN Quot(0, 0)
             ELSE Quot(rest.n * den.d + den.n * w * rest.d, rest.d * den.d)

IntegratesToOne == LET t == Integral(NumBins) IN t.d # 0 /\ t.n = t.d

\* C1 (as stated): whenever the total weight of the input is nonzero, the
\* density returned by make_angular_PDF integrates to 1 over the bin range.
C1_IntegralOneTotalWeight ==
    PDFDone /\ SumSeq(args.weight) # 0 => IntegratesToOne

\* C1 (amended): whenever the total weight of the samples that fall inside
\* the bin range is nonzero, the density integrates to 1 over the bin range.
C1_IntegralOneInRangeWeight ==
    PDFDone /\ WeightOver(InRange) # 0 => IntegratesToOne

\* a density over bins of unequal width, with a sample outside the range
C1_Witness ==
    /\ PDFDone
    /\ WeightOver(InRange) # 0
    /\ InRange # 1..Len(args.angles)
    /\ \E i, j \in 1..NumBins :
          args.bin_edges[i + 1] - args.bin_edges[i] # args.bin_edges[j + 1] - args.bin_edges[j]
    /\ IntegratesToOne

\* C2: every bin of make_angular_average that receives no sample holds
\* exactly 1, whatever the weights of the samples elsewhere.
C2_EmptyBinIsOne ==
    AverageDone =>
        \A i \in 1..NumBins : InBin(i) = {} => ret.hist[i] = Quot(1, 1)

\* an empty bin next to samples of weight other than 1
C2_Witness ==
    /\ AverageDone
    /\ \E i \in 1..NumBins : InBin(i) = {} /\ ret.hist[i] = Quot(1, 1)
    /\ \E k \in 1..Len(args.angles) : k \in InRange /\ args.weight[k] = 2
    /\ \E k \in 1..Len(args.angles) : k \notin InRange /\ args.weight[k] # 1

\* C3: every bin of make_angular_average that receives at least one sample
\* holds the sum of the weights of its samples divided by their number.
C3_BinMean ==
    AverageDone =>
        \A i \in 1..NumBins :
            InBin(i) # {} =>
                /\ ret.hist[i].d > 0
                /\ ret.hist[i].n * Cardinality(InBin(i)) = WeightOver(InBin(i)) * ret.hist[i].d

\* a bin holding two samples of different weight, another sample elsewhere
C3_Witness ==
    /\ AverageDone
    /\ \E i \in 1..NumBins :
          /\ Cardinality(InBin(i)) = 2
          /\ \E k, l \in InBin(i) : args.weight[k] # args.weight[l]
          /\ ret.hist[i] = Quot(WeightOver(InBin(i)), 2)

\* C7 (as stated): bin_centers[i] = bin_edges[i+1] - w/2 with the one width w
\* taken from the last two edges.
C7_CentersFromLastEdges ==
    PDFDone =>
        /\ Len(ret.bin_centers) = NumBins
        /\ \A i \in 1..NumBins :
              LET w == args.bin_edges[NumBins + 1] - args.bin_edges[NumBins]
              IN  2 * ret.bin_centers[i].n = (2 * args.bin_edges[i + 1] - w) * ret.bin_centers[i].d

\* C7 (amended): bin_centers has one entry per bin and bin_centers[i] =
\* bin_edges[i+1] - w/2 with the one width w taken from the first two edges,
\* for uniform and non-uniform edges alike.
C7_CentersFromFirstEdges ==
    PDFDone =>
        /\ Len(ret.bin_centers) = NumBins
        /\ \A i \in 1..NumBins :
              LET w == args.bin_edges[2] - args.bin_edges[1]
              IN  /\ ret.bin_centers[i].d > 0
                  /\ 2 * ret.bin_centers[i].n = (2 * args.bin_edges[i + 1] - w) * ret.bin_centers[i].d

\* bin centres over edges whose first and last spacings differ
C7_Witness ==
    /\ PDFDone
    /\ NumBins >= 2
    /\ args.bin_edges[2] - args.bin_edges[1] # args.bin_edges[NumBins + 1] - args.bin_edges[NumBins]
    /\ ret.bin_centers[NumBins] =
          Quot(2 * args.bin_edges[NumBins + 1] - (args.bin_edges[2] - args.bin_edges[1]), 2)

(***************************************************************************)
(* vector_average.  A float is [nan, v]; a complex number [nan, re, im]    *)
(* with re and im in fixed point.  Angles and norms are whole numbers.     *)
(***************************************************************************)
MaxNorm == 2          \* norms are drawn from 0..MaxNorm
MaxVecLen == 3        \* SpecVecNaN: the arrays hold at most MaxVecLen entries

NaN == [nan |-> TRUE, v |-> 0]
Real(v) == [nan |-> FALSE, v |-> v]
CNaN == [nan |-> TRUE, re |-> 0, im |-> 0]
Complex(re, im) == [nan |-> FALSE, re |-> re, im |-> im]

\* norm*np.exp(1j*np.radians(angles)), one entry: not-a-number as soon as
\* the angle or the norm is
Polar(angle, norm) ==
    IF angle.nan \/ norm.nan THEN CNaN
    ELSE Complex(norm.v * cosd(angle.v), norm.v * sind(angle.v))

RECURSIVE SumRe(_)
SumRe(z) == IF z = <<>> THEN 0 ELSE Head(z).re + SumRe(Tail(z))

RECURSIVE SumIm(_)
SumIm(z) == IF z = <<>> THEN 0 ELSE Head(z).im + SumIm(Tail(z))

\* the not-a-number entries zeroed, the sum divided by the full length
nanmeanFullLength(z) ==
    LET arr == [k \in 1..Len(z) |-> IF z[k].nan THEN Complex(0, 0) ELSE z[k]]
        cnt == Cardinality({k \in 1..Len(z) : ~z[k].nan})
    IN  IF cnt = 0 THEN CNaN
        ELSE Complex(RoundDiv(SumRe(arr), Len(z)), RoundDiv(SumIm(arr), Len(z)))

\* np.nanmean: the not-a-number entries are replaced by 0 and the sum is
\* divided by the number of the others; not-a-number when there are none
nanmean(z) ==
    LET arr == [k \in 1..Len(z) |-> IF z[k].nan THEN Complex(0, 0) ELSE z[k]]
        cnt == Cardinality({k \in 1..Len(z) : ~z[k].nan})
    IN  IF cnt = 0 THEN CNaN
        ELSE Complex(RoundDiv(SumRe(arr), cnt), RoundDiv(SumIm(arr), cnt))

\* the arithmetic mean of the angle values, the norms averaged alike
vector_averageNaive(angles, norm) ==
    LET n == Len(angles)
    IN  IF n = 0 \/ \E k \in 1..n : angles[k].nan \/ norm[k].nan
        THEN [angle |-> NaN, norm |-> NaN]
        ELSE [angle |-> Real(RoundDiv(SumSeq([k \in 1..n |-> angles[k].v]), n)),
              norm  |-> Real(RoundDiv(SumSeq([k \in 1..n |-> norm[k].v * Scale]), n))]

vector_average(angles, norm) ==
    LET average == nanmean([k \in 1..Len(angles) |-> Polar(angles[k], norm[k])])
    IN  IF average.nan THEN [angle |-> NaN, norm |-> NaN]
        ELSE [angle |-> Real(arctan2d(average.im, average.re)),
              norm  |-> Real(sqrt(average.re * average.re + average.im * average.im))]

CallVectorAverage ==
    /\ pc = "call"
    /\ args.fn = "vector_average"
    /\ ret' = vector_average(args.angles, args.norm)
    /\ pc' = "done"
    /\ UNCHANGED <<args, heap, thr, calls>>

VecDone == pc = "done" /\ args.fn = "vector_average"

\* two entries of equal positive norm n at t + d and t - d, modulo 360, in
\* either order (d < 0 puts t - |d| first)
InitVecPair ==
    /\ pc = "call"
    /\ \E t \in 0..(FullTurn - 1), d \in (-89)..89, n \in 1..MaxNorm :
          args = [fn     |-> "vector_average",
                  angles |-> <<Real((t + d) % FullTurn), Real((t - d) % FullTurn)>>,
                  norm   |-> <<Real(n), Real(n)>>,
                  t      |-> t,
                  d      |-> d]
    /\ ret = None
    /\ heap = <<>>
    /\ thr = <<>>
    /\ calls = 0

SpecVecPair == InitVecPair /\ [][CallVectorAverage]_vars

\* the fixed-point rounding allowed on a norm of size n
NormTolerance(n) == 2 * n + 1

\* C4: for two entries of equal positive norm n at t + d and t - d (modulo
\* 360, 0 <= d < 90) the mean angle is t normalised to [-180, 180] and the
\* mean norm is n * cos(d); [359, 1] gives 0, not 180, and [0, 10] gives 5.
C4_PairAverage ==
    VecDone =>
        LET n == args.norm[1].v
        IN  /\ ~ret.angle.nan /\ ~ret.norm.nan
            /\ -180 <= ret.angle.v /\ ret.angle.v <= 180
            /\ (ret.angle.v - args.t) % FullTurn = 0
            /\ Abs(ret.norm.v - n * cosd(Abs(args.d))) <= NormTolerance(n)
            /\ (args.angles = <<Real(359), Real(1)>> => ret.angle.v = 0)
            /\ (args.angles = <<Real(0), Real(10)>> /\ n = 1 =>
                    ret.angle.v = 5 /\ Abs(ret.norm.v - cosd(5)) <= NormTolerance(1))

\* the call vector_average([359, 1], [1, 1]) has returned the angle 0
C4_Witness ==
    /\ VecDone
    /\ args.angles = <<Real(359), Real(1)>>
    /\ args.norm = <<Real(1), Real(1)>>
    /\ ret.angle = Real(0)
    /\ Abs(ret.norm.v - cosd(1)) <= NormTolerance(1)

VecAngles == {1, 120, 359}

VecEntries == ({NaN} \cup {Real(a) : a \in VecAngles})
                  \X ({NaN} \cup {Real(n) : n \in 0..MaxNorm})

InitVecNaN ==
    /\ pc = "call"
    /\ \E en \in UNION {[1..n -> VecEntries] : n \in 0..MaxVecLen} :
          args = [fn     |-> "vector_average",
                  angles |-> [k \in 1..Len(en) |-> en[k][1]],
                  norm   |-> [k \in 1..Len(en) |-> en[k][2]]]
    /\ ret = None
    /\ heap = <<>>
    /\ thr = <<>>
    /\ calls = 0

SpecVecNaN == InitVecNaN /\ [][CallVectorAverage]_vars

\* the entries whose angle and norm are both numbers
Kept == {k \in 1..Len(args.angles) : ~args.angles[k].nan /\ ~args.norm[k].nan}

\* q with the entries outside Kept removed
RECURSIVE Compact(_, _)
Compact(q, k) ==
    IF k > Len(q) THEN <<>>
    ELSE (IF k \in Kept THEN <<q[k]>> ELSE <<>>) \o Compact(q, k + 1)

\* C8: an entry whose angle or norm is not-a-number contributes nothing: the
\* result is that of vector_average on the input with those entries removed,
\* the mean being divided by the number of the remaining entries.
C8_NaNIgnored ==
    VecDone => ret = vector_average(Compact(args.angles, 1), Compact(args.norm, 1))

\* a call with a not-a-number angle, a not-a-number norm and a proper entry
C8_Witness ==
    /\ VecDone
    /\ \E k \in 1..Len(args.angles) : args.angles[k].nan /\ ~args.norm[k].nan
    /\ \E k \in 1..Len(args.angles) : args.norm[k].nan /\ ~args.angles[k].nan
    /\ \E k \in Kept : args.norm[k].v = 2
    /\ ~ret.angle.nan
    /\ ret.norm.v > Scale

(***************************************************************************)
(* Calls on a heap of arrays, statement by statement, from two threads.    *)
(* An array is named by <<owner, variable>>: the owner is "module" for the *)
(* default bin_edges (built once, when the functions are defined), a       *)
(* thread for the arrays its caller passes in and for the arrays a call    *)
(* of that thread creates.                                                 *)
(***************************************************************************)
MaxCalls == 2           \* calls made in all, over both threads
NumDefaultEdges == 361

Threads == {"A", "B"}

\* np.linspace(start, stop, num)
linspace(start, stop, num) ==
    [i \in 1..num |-> start + ((i - 1) * (stop - start)) \div (num - 1)]

DefaultEdges == linspace(0, FullTurn, NumDefaultEdges)

DefaultId == <<"module", "bin_edges">>

CallerVars == {"angles", "weight", "bin_edges"}
LocalVars == {"hist", "counts", "bin_centers", "out"}

ArrayIds == {DefaultId} \cup (Threads \X CallerVars) \cup (Threads \X LocalVars)
                \cup ({"module"} \X LocalVars)

Free == [free |-> TRUE, data |-> <<>>]
Arr(d) == [free |-> FALSE, data |-> d]

\* an array created by a statement lands in one slot shared by every call
AllocModuleLevel(t, var) == <<"module", var>>

\* an array created by a statement of a call of thread t, bound to var
Alloc(t, var) == <<t, var>>

\* the data a caller may hold: samples, weights and explicit bin edges
CallerData ==
    { [angles |-> <<0, 2>>, weight |-> <<1, 2>>, bin_edges |-> <<0, 1, 3>>],
      [angles |-> <<1, 1>>, weight |-> <<0, 2>>, bin_edges |-> <<0, 2>>],
      [angles |-> <<-1, 400>>, weight |-> <<2, 1>>, bin_edges |-> <<1, 2, 4>>] }

Idle == [pc |-> "idle", fn |-> "", bin_edges |-> DefaultId, ret |-> None]

InitThreads ==
    /\ pc = "threads"
    /\ calls = 0
    /\ args \in [Threads -> CallerData]
    /\ ret = None
    /\ heap = [id \in ArrayIds |->
                 IF id = DefaultId THEN Arr(DefaultEdges)
                 ELSE IF id[1] \in Threads /\ id[2] \in CallerVars
                      THEN Arr(args[id[1]][id[2]])
                      ELSE Free]
    /\ thr = [t \in Threads |-> Idle]

At(t, line) == thr[t].pc = line

Goto(t, line) == thr' = [thr EXCEPT ![t].pc = line]

Data(t, var) == heap[<<t, var>>].data

Edges(t) == heap[thr[t].bin_edges].data

Local(t, var) == heap[Alloc(t, var)].data

Store(t, var, d) == heap' = [heap EXCEPT ![Alloc(t, var)] = Arr(d)]

\* the caller of thread t calls f, with its own bin_edges or with none (the
\* default then)
Call(t, f, explicit) ==
    /\ At(t, "idle")
    /\ calls < MaxCalls
    /\ calls' = calls + 1
    /\ thr' = [thr EXCEPT ![t] =
                 [pc        |-> IF f = "make_angular_PDF" THEN "L186" ELSE "L213",
                  fn        |-> f,
                  bin_edges |-> IF explicit THEN <<t, "bin_edges">> ELSE DefaultId,
                  ret       |-> None]]
    /\ UNCHANGED <<pc, args, ret, heap>>

\* hist, _ = histogram(angles, bins=bin_edges, density=1, weights=weight, axis=axis)
PDF186(t) ==
    /\ At(t, "L186")
    /\ Store(t, "hist",
             normalize(histogram(Data(t, "angles"), Edges(t), Data(t, "weight")), Edges(t)))
    /\ Goto(t, "L187")
    /\ UNCHANGED <<pc, args, ret, calls>>

\* the centres written through the view bin_edges[1:], in place
centersStoreInPlace(t) ==
    heap' = [heap EXCEPT ![thr[t].bin_edges] =
                Arr([i \in 1..Len(Edges(t)) |->
                        IF i = 1 THEN Edges(t)[1]
                        ELSE Edges(t)[i] - (Edges(t)[2] - Edges(t)[1]) \div 2]),
             ![Alloc(t, "bin_centers")] = Arr(centersPDF(Edges(t)))]

\* bin_centers = bin_edges[1:] - (bin_edges[1] - bin_edges[0])/2: a new array
centersStore(t) == Store(t, "bin_centers", centersPDF(Edges(t)))

PDF187(t) ==
    /\ At(t, "L187")
    /\ centersStore(t)
    /\ Goto(t, "L188")
    /\ UNCHANGED <<pc, args, ret, calls>>

\* return: the caller takes the values, the call's arrays are dropped
Return(t, line, first) ==
    /\ At(t, line)
    /\ thr' = [thr EXCEPT ![t].pc = "idle",
                          ![t].ret = [hist        |-> Local(t, first),
                                      bin_centers |-> Local(t, "bin_centers")]]
    /\ heap' = [id \in ArrayIds |->
                  IF id \in {Alloc(t, v) : v \in LocalVars} THEN Free ELSE heap[id]]
    /\ UNCHANGED <<pc, args, ret, calls>>

\* return hist, bin_centers
PDF188(t) == Return(t, "L188", "hist")

\* hist, _ = histogram(angles, bins=bin_edges, weights=weight, axis=axis)
Avg213(t) ==
    /\ At(t, "L213")
    /\ Store(t, "hist", histogram(Data(t, "angles"), Edges(t), Data(t, "weight")))
    /\ Goto(t, "L214")
    /\ UNCHANGED <<pc, args, ret, calls>>

\* counts, _ = histogram(angles, bins=bin_edges, axis=axis)
Avg214(t) ==
    /\ At(t, "L214")
    /\ Store(t, "counts", countsOf(Data(t, "angles"), Data(t, "weight"), Edges(t)))
    /\ Goto(t, "L215")
    /\ UNCHANGED <<pc, args, ret, calls>>

\* bin_centers = np.array([np.mean(bin_edges[i:i+2]) for i in ...])
Avg215(t) ==
    /\ At(t, "L215")
    /\ Store(t, "bin_centers", centersAverage(Edges(t)))
    /\ Goto(t, "L216")
    /\ UNCHANGED <<pc, args, ret, calls>>

\* hist[counts == 0] = 1, in place
Avg216(t) ==
    /\ At(t, "L216")
    /\ Store(t, "hist", maskedFill(Local(t, "hist"), Local(t, "counts")))
    /\ Goto(t, "L217")
    /\ UNCHANGED <<pc, args, ret, calls>>

\* counts[counts == 0] = 1, in place
Avg217(t) ==
    /\ At(t, "L217")
    /\ Store(t, "counts", maskedFill(Local(t, "counts"), Local(t, "counts")))
    /\ Goto(t, "L218")
    /\ UNCHANGED <<pc, args, ret, calls>>

\* hist/counts
Avg218(t) ==
    /\ At(t, "L218")
    /\ Store(t, "out", [i \in 1..Len(Local(t, "hist")) |->
                           Quot(Local(t, "hist")[i], Local(t, "counts")[i])])
    /\ Goto(t, "L218r")
    /\ UNCHANGED <<pc, args, ret, calls>>

\* return hist/counts, bin_centers
Avg218r(t) == Return(t, "L218r", "out")

NextThreads ==
    \E t \in Threads :
        \/ \E f \in {"make_angular_PDF", "make_angular_average"}, explicit \in BOOLEAN :
              Call(t, f, explicit)
        \/ PDF186(t)
        \/ PDF187(t)
        \/ PDF188(t)
        \/ Avg213(t)
        \/ Avg214(t)
        \/ Avg215(t)
        \/ Avg216(t)
        \/ Avg217(t)
        \/ Avg218(t)
        \/ Avg218r(t)

SpecThreads == InitThreads /\ [][NextThreads]_vars

\* C9: whatever calls have been made and however far they have got, the
\* caller's angles, weight and bin_edges arrays and the module-level default
\* bin_edges hold the values they held before the calls.
C9_InputsUntouched ==
    /\ heap[DefaultId] = Arr(DefaultEdges)
    /\ \A t \in Threads, v \in CallerVars : heap[<<t, v>>] = Arr(args[t][v])

\* both in-place stores of a make_angular_average call on the default
\* bin_edges have run while the other thread has completed a call
C9_Witness ==
    /\ \E t \in Threads :
          /\ At(t, "L218")
          /\ thr[t].bin_edges = DefaultId
          /\ \E i \in 1..Len(Local(t, "hist")) : Local(t, "counts")[i] = 1 /\ Local(t, "hist")[i] = 1
          /\ \E u \in Threads \ {t} : thr[u].ret # None
    /\ C9_InputsUntouched

\* what the call returns when run alone on the caller's data
Alone(t) ==
    LET e == IF thr[t].bin_edges = DefaultId THEN DefaultEdges ELSE args[t].bin_edges
    IN  IF thr[t].fn = "make_angular_PDF"
        THEN make_angular_PDF(args[t].angles, args[t].weight, e)
        ELSE make_angular_average(args[t].angles, args[t].weight, e)

\* C10: in every interleaving of the statements of concurrent calls, each
\* call returns what it returns when run alone.
C10_SameAsAlone ==
    \A t \in Threads : thr[t].ret # None => thr[t].ret = Alone(t)

\* a call has returned after running interleaved with a call of the other
\* thread, both on the shared default bin_edges
C10_Witness ==
    \E t \in Threads, u \in Threads :
        /\ t # u
        /\ thr[t].ret # None /\ thr[t].ret = Alone(t)
        /\ thr[t].bin_edges = DefaultId /\ thr[u].bin_edges = DefaultId
        /\ thr[t].fn = "make_angular_average"
        /\ thr[u].pc \in {"L214", "L215", "L216", "L217", "L218"}

=============================================================================
